---- MODULE Spec2Model ----
(***************************************************************************)
(* A model of the video pipeline of src/main.js: the two entry points      *)
(* (HTTP POST /process and runpodHandler), processVideoRequest and the     *)
(* stages it sequences (downloadFiles, concatenateMedia, the two text      *)
(* rasterizers, buildVideoWithOverlays, uploadVideoToR2, cleanup).         *)
(*                                                                         *)
(* Time is counted in whole units (a duration of 3 is 3.0 seconds); the    *)
(* code adds durations left to right and the model adds them in the same   *)
(* order.  A JavaScript number that may be undefined or NaN is a sequence: *)
(* <<n>> is the number n and <<>> is "not a number".                       *)
(***************************************************************************)
EXTENDS Integers, Sequences, FiniteSets, TLC

(***************************************************************************)
(* Bounds of the model.                                                    *)
(***************************************************************************)
NumReqs == 2        \* requests that may be in flight
MaxVerses == 2      \* longest ayat list of a payload
MaxAudio == 2       \* longest recitation_files list of a payload
MaxDuration == 2    \* longest probed audio duration
MaxClock == 1       \* last value of Date.now() the model reaches
RandomRange == 2    \* Math.floor( Math.random() * 10000 ) scaled down to 0..RandomRange-1
MaxWords == 3       \* longest text handed to a rasterizer on its own

(***************************************************************************)
(* Program constants.                                                      *)
(***************************************************************************)
width == 950                \* canvas width of both rasterizers
arabicLineHeight == 100
translationLineHeight == 45
watermarkY == 1920 - 300

Reqs == 1..NumReqs

(***************************************************************************)
(* JavaScript values.                                                      *)
(***************************************************************************)
NaN == <<>>
Num(n) == <<n>>
IsNum(v) == Len(v) = 1

\* array[i] with a 1-based i: undefined past the end of the array
At(s, i) == IF i \in DOMAIN s THEN <<s[i]>> ELSE NaN
JsAdd(a, b) == IF IsNum(a) /\ IsNum(b) THEN <<a[1] + b[1]>> ELSE NaN
JsSub(a, b) == IF IsNum(a) /\ IsNum(b) THEN <<a[1] - b[1]>> ELSE NaN

\* !x for a payload field: undefined is falsy, an array or an object (even an
\* empty one) is truthy
Truthy(f) == f.present

(***************************************************************************)
(* Request payloads.  A text is the sequence of its space-separated words, *)
(* each word given by the width measureText reports for it together with   *)
(* its trailing space.  A URL is the sequence of its parts.                *)
(***************************************************************************)
Absent == [present |-> FALSE, val |-> <<>>]
Given(v) == [present |-> TRUE, val |-> v]

VerseAt(k) ==
    [verse_key |-> <<ToString(1), ":", ToString(k)>>,
     aya |-> [w \in 1..k |-> 500],
     translation |-> [w \in 1..(k + 1) |-> 300]]

RecitationAt(k) == [url |-> <<"audio/", ToString(k), ".mp3">>]

PixabayPrefix == <<"https://", "cdn.pixabay.com", "/">>
Pix1 == <<"https://", "cdn.pixabay.com", "/", "v1.mp4">>
Pix2 == <<"https://", "cdn.pixabay.com", "/", "v2.mp4">>
PlainHttp == <<"http://", "cdn.pixabay.com", "/", "v1.mp4">>
OtherHost == <<"https://", "cdn.pixabay.com.example.org", "/", "v1.mp4">>

AyatSamples ==
    {Absent} \cup {Given([k \in 1..n |-> VerseAt(k)]) : n \in 0..MaxVerses}
RecitationSamples ==
    {Absent} \cup {Given([k \in 1..n |-> RecitationAt(k)]) : n \in 0..MaxAudio}
BackgroundSamples ==
    {Absent, Given(<<>>), Given(<<Pix1>>), Given(<<OtherHost>>),
     Given(<<PlainHttp, Pix1>>), Given(<<Pix1, OtherHost, Pix2>>)}

Payloads ==
    [recitation_files : RecitationSamples,
     background : BackgroundSamples,
     ayat : AyatSamples]

NoPayload == [recitation_files |-> Absent, background |-> Absent, ayat |-> Absent]

\* a JavaScript string or number that may be undefined: <<v>> is the value v
undefined == <<>>
NoReq == [url |-> <<>>, input |-> [videoId |-> undefined, expirySeconds |-> undefined]]

Durations == 0..MaxDuration

(***************************************************************************)
(* State.                                                                  *)
(***************************************************************************)
VARIABLES
    now,                    \* Date.now()
    debugMode,              \* process.env.NODE_ENV !== 'production'
    dirs,                   \* the directories under temp/ that exist
    files,                  \* the files under temp/: [dir, name, by]
    bucket,                 \* the objects put into the R2 bucket: [key, by]
    fetched,                \* per request, the URLs fetch() was called with
    ffmpegLog,              \* per request, the ffmpeg commands that were run
    clobbered,              \* per request, whether a file of its own was
                            \* overwritten or deleted by another request
    entry,                  \* per request, the entry point it came in by
    payload,                \* per request, the request payload
    req,                    \* per request, the URL and the runpod input of a
                            \* lookup of a video
    pc,                     \* per request, the stage it is at
    response,               \* per request, what the entry point answered
    request_id,
    audioPaths,
    audioDurations,
    videoPaths,
    index,                  \* per request, the next position in background.links
    finalVideoInput,
    audioInput,
    arabicImagePaths,
    arabicTextHeights,
    translationImagePaths,
    translationTextHeights,
    startTimes,
    totalDuration,
    filterComplexParts,
    finalVideoLabel,
    finalOutputPath

envVars == <<now, debugMode>>
diskVars == <<dirs, files, clobbered>>
netVars == <<bucket, fetched, ffmpegLog>>
reqVars == <<entry, payload, req>>
downloadVars == <<audioPaths, audioDurations, videoPaths, index>>
concatVars == <<finalVideoInput, audioInput>>
imageVars == <<arabicImagePaths, arabicTextHeights, translationImagePaths,
               translationTextHeights>>
buildVars == <<startTimes, totalDuration, filterComplexParts, finalVideoLabel,
               finalOutputPath>>
vars == <<envVars, diskVars, netVars, reqVars, pc, response, request_id,
          downloadVars, concatVars, imageVars, buildVars>>

(***************************************************************************)
(* The file system under temp/ and static/.                                *)
(***************************************************************************)
Path(dir, name) == [dir |-> dir, name |-> name]
NoPath == Path("", <<>>)
SamePath(f, p) == f.dir = p.dir /\ f.name = p.name
Exists(fs, p) == \E f \in fs : SamePath(f, p)
\* static/ holds the deployment's watermark and gradient
InputExists(fs, p) == p.dir = "static" \/ Exists(fs, p)

\* fs.writeFileSync of every path of ps by request r
WriteFiles(fs, ps, r) ==
    {f \in fs : \A p \in ps : ~SamePath(f, p)}
        \cup {[dir |-> p.dir, name |-> p.name, by |-> r] : p \in ps}
\* fs.rmSync( dir, { recursive: true } )
RemoveDir(fs, dir) == {f \in fs : f.dir # dir}

\* the requests whose files a write of ps, or the removal of dir, by r destroys
Overwritten(fs, ps, r) == {f.by : f \in {g \in fs : g.by # r /\ \E p \in ps : SamePath(g, p)}}
Deleted(fs, dir, r) == {f.by : f \in {g \in fs : g.by # r /\ g.dir = dir}}
Clobber(c, victims) == [q \in Reqs |-> c[q] \/ q \in victims]

tempDirOf(id) == "temp/" \o id

\* verse_key.replace( /:/g, '_' )
ReplaceColons(key) == [k \in DOMAIN key |-> IF key[k] = ":" THEN "_" ELSE key[k]]

(***************************************************************************)
(* Answers of the entry points.                                            *)
(***************************************************************************)
MissingFieldsMessage == "Missing required fields: recitation_files, background, or ayat"
NoResponse == [status |-> 0, error |-> "", output |-> NoPath, videoId |-> ""]

\* main.js 611-616 (HTTP: status 500) and 650-654 (runpod: an object, no status)
ErrorResponse(e, message) ==
    [status |-> IF e = "http" THEN 500 ELSE 0, error |-> message,
     output |-> NoPath, videoId |-> ""]

\* Fail with the failed step tried again instead of the request ending
FailAndRetry(r, message) ==
    /\ pc' = pc
    /\ response' = [response EXCEPT ![r] = ErrorResponse(entry[r], message)]

\* the catch of processVideoRequest rethrows; the entry point answers
Fail(r, message) ==
    /\ pc' = [pc EXCEPT ![r] = "failed"]
    /\ response' = [response EXCEPT ![r] = ErrorResponse(entry[r], message)]

(***************************************************************************)
(* Initial states: one request, any payload, either entry point.           *)
(***************************************************************************)
InitLocals ==
    /\ now = 0
    /\ dirs = {}
    /\ files = {}
    /\ bucket = {}
    /\ fetched = [r \in Reqs |-> <<>>]
    /\ ffmpegLog = [r \in Reqs |-> <<>>]
    /\ clobbered = [r \in Reqs |-> FALSE]
    /\ response = [r \in Reqs |-> NoResponse]
    /\ request_id = [r \in Reqs |-> ""]
    /\ audioPaths = [r \in Reqs |-> <<>>]
    /\ audioDurations = [r \in Reqs |-> <<>>]
    /\ videoPaths = [r \in Reqs |-> <<>>]
    /\ index = [r \in Reqs |-> 0]
    /\ finalVideoInput = [r \in Reqs |-> NoPath]
    /\ audioInput = [r \in Reqs |-> NoPath]
    /\ arabicImagePaths = [r \in Reqs |-> <<>>]
    /\ arabicTextHeights = [r \in Reqs |-> <<>>]
    /\ translationImagePaths = [r \in Reqs |-> <<>>]
    /\ translationTextHeights = [r \in Reqs |-> <<>>]
    /\ startTimes = [r \in Reqs |-> <<>>]
    /\ totalDuration = [r \in Reqs |-> 0]
    /\ filterComplexParts = [r \in Reqs |-> <<>>]
    /\ finalVideoLabel = [r \in Reqs |-> ""]
    /\ finalOutputPath = [r \in Reqs |-> NoPath]

Init ==
    /\ InitLocals
    /\ req = [r \in Reqs |-> NoReq]
    /\ debugMode \in BOOLEAN
    /\ \E e \in {"http", "runpod"}, p \in Payloads :
        /\ entry = [r \in Reqs |-> IF r = 1 THEN e ELSE "off"]
        /\ payload = [r \in Reqs |-> IF r = 1 THEN p ELSE NoPayload]
    /\ pc = [r \in Reqs |-> IF r = 1 THEN "idle" ELSE "off"]

(***************************************************************************)
(* Time passes.  Date.now() is read only when a request id is generated    *)
(* (main.js 48) and when a lookup builds its URL (main.js 112), so the     *)
(* clock is followed while a request is yet to start.                      *)
(***************************************************************************)
Tick ==
    /\ now < MaxClock
    /\ \E r \in Reqs : pc[r] \in {"idle", "lookup"}
    /\ now' = now + 1
    /\ UNCHANGED <<debugMode, diskVars, netVars, reqVars, pc, response, request_id,
                   downloadVars, concatVars, imageVars, buildVars>>

(***************************************************************************)
(* The entry points and the start of processVideoRequest.                  *)
(***************************************************************************)
\* MissingFields with the test of ayat left out
MissingFieldsNoAyat(p) == ~Truthy(p.recitation_files) \/ ~Truthy(p.background)

\* main.js 598 and 647: !recitation_files || !background || !ayat
MissingFields(p) ==
    ~Truthy(p.recitation_files) \/ ~Truthy(p.background) \/ ~Truthy(p.ayat)

\* main.js 47-49
generateShortId(t, rnd) == ToString(t) \o "-" \o ToString(rnd)

\* AfterAudio with the audio loop left after its first turn
AfterAudioEarly(recitation_files, done) ==
    IF done < 1 /\ done < Len(recitation_files) THEN "downloadAudio" ELSE "downloadVideo"

\* where downloadFiles is once `done` audio files are fetched
AfterAudio(recitation_files, done) ==
    IF done < Len(recitation_files) THEN "downloadAudio" ELSE "downloadVideo"

\* main.js 476-480: the request id, the working directory, and the call of
\* downloadFiles
processVideoRequest(r) ==
    \E rnd \in 0..(RandomRange - 1) :
        LET id == generateShortId(now, rnd) IN
        /\ request_id' = [request_id EXCEPT ![r] = id]
        /\ dirs' = dirs \cup {tempDirOf(id)}
        /\ pc' = [pc EXCEPT ![r] = AfterAudio(payload[r].recitation_files.val, 0)]
        /\ UNCHANGED <<envVars, files, clobbered, netVars, reqVars, response,
                       downloadVars, concatVars, imageVars, buildVars>>

Reject(r, status) ==
    /\ pc' = [pc EXCEPT ![r] = "rejected"]
    /\ response' = [response EXCEPT ![r] =
            [status |-> status, error |-> MissingFieldsMessage,
             output |-> NoPath, videoId |-> ""]]
    /\ UNCHANGED <<envVars, diskVars, netVars, reqVars, request_id,
                   downloadVars, concatVars, imageVars, buildVars>>

\* main.js 590-618: the 'end' callback of POST /process
handler(r) ==
    /\ pc[r] = "idle"
    /\ entry[r] = "http"
    /\ \/ MissingFields(payload[r]) /\ Reject(r, 400)
       \/ ~MissingFields(payload[r]) /\ processVideoRequest(r)

\* main.js 639-662, for an input whose route is not 'video'
runpodHandler(r) ==
    /\ pc[r] = "idle"
    /\ entry[r] = "runpod"
    /\ \/ ~MissingFields(payload[r]) /\ processVideoRequest(r)
       \/ MissingFields(payload[r]) /\ Reject(r, 0)


(***************************************************************************)
(* downloadFiles (main.js 146-190).                                        *)
(***************************************************************************)
\* videoUrl.startsWith( prefix )
startsWith(u, prefix) ==
    Len(u) >= Len(prefix) /\ SubSeq(u, 1, Len(prefix)) = prefix

\* IsEligible with the host left out of the prefix
IsEligibleAnyHost(videoUrl) == startsWith(videoUrl, <<"https://">>)

\* main.js 172: the links that are fetched
IsEligible(videoUrl) == startsWith(videoUrl, PixabayPrefix)

\* main.js 153-155
audioPathOf(tempDir, ayat, i) ==
    LET verse_key == IF (i + 1) \in DOMAIN ayat
                     THEN ayat[i + 1].verse_key
                     ELSE <<"unknown-", ToString(i)>>
    IN Path(tempDir, <<"audio_">> \o ReplaceColons(verse_key) \o <<".mp3">>)

\* main.js 173
videoPathOf(tempDir, i) == Path(tempDir, <<"background_", ToString(i), ".mp4">>)

\* main.js 151-169: one turn of the audio loop (fetch, write, probe)
downloadAudio(r) ==
    /\ pc[r] = "downloadAudio"
    /\ LET recitation_files == payload[r].recitation_files.val
           i == Len(audioDurations[r])
           tempDir == tempDirOf(request_id[r])
           audioUrl == <<"https://verses.quran.com/">> \o recitation_files[i + 1].url
           audioPath == audioPathOf(tempDir, payload[r].ayat.val, i)
       IN /\ i < Len(recitation_files)
          /\ fetched' = [fetched EXCEPT ![r] = Append(@, audioUrl)]
          /\ \/ \* the fetch fails, or the working directory is gone
                /\ Fail(r, "Audio download failed")
                /\ UNCHANGED <<files, clobbered, audioPaths, audioDurations>>
             \/ \* the file is written and ffprobe fails
                /\ tempDir \in dirs
                /\ files' = WriteFiles(files, {audioPath}, r)
                /\ clobbered' = Clobber(clobbered, Overwritten(files, {audioPath}, r))
                /\ audioPaths' = [audioPaths EXCEPT ![r] = Append(@, audioPath)]
                /\ Fail(r, "Audio download failed")
                /\ UNCHANGED audioDurations
             \/ \* the file is written and probed
                /\ tempDir \in dirs
                /\ files' = WriteFiles(files, {audioPath}, r)
                /\ clobbered' = Clobber(clobbered, Overwritten(files, {audioPath}, r))
                /\ audioPaths' = [audioPaths EXCEPT ![r] = Append(@, audioPath)]
                /\ \E duration \in Durations :
                        audioDurations' = [audioDurations EXCEPT ![r] = Append(@, duration)]
                /\ pc' = [pc EXCEPT ![r] = AfterAudio(recitation_files, i + 1)]
                /\ UNCHANGED response
    /\ UNCHANGED <<envVars, dirs, bucket, ffmpegLog, reqVars, request_id, videoPaths,
                   index, concatVars, imageVars, buildVars>>

\* main.js 171-185: one turn of the background loop
downloadVideo(r) ==
    /\ pc[r] = "downloadVideo"
    /\ LET links == payload[r].background.val
           tempDir == tempDirOf(request_id[r])
           videoUrl == links[index[r] + 1]
           videoPath == videoPathOf(tempDir, index[r])
       IN /\ index[r] < Len(links)
          /\ \/ \* not a pixabay link: skipped
                /\ ~IsEligible(videoUrl)
                /\ index' = [index EXCEPT ![r] = @ + 1]
                /\ UNCHANGED <<files, clobbered, fetched, videoPaths, pc, response>>
             \/ \* the fetch fails, or the working directory is gone
                /\ IsEligible(videoUrl)
                /\ fetched' = [fetched EXCEPT ![r] = Append(@, videoUrl)]
                /\ Fail(r, "Video download failed")
                /\ UNCHANGED <<files, clobbered, videoPaths, index>>
             \/ \* fetched and written
                /\ IsEligible(videoUrl)
                /\ tempDir \in dirs
                /\ fetched' = [fetched EXCEPT ![r] = Append(@, videoUrl)]
                /\ files' = WriteFiles(files, {videoPath}, r)
                /\ clobbered' = Clobber(clobbered, Overwritten(files, {videoPath}, r))
                /\ videoPaths' = [videoPaths EXCEPT ![r] = Append(@, videoPath)]
                /\ index' = [index EXCEPT ![r] = @ + 1]
                /\ UNCHANGED <<pc, response>>
    /\ UNCHANGED <<envVars, dirs, bucket, ffmpegLog, reqVars, request_id, audioPaths,
                   audioDurations, concatVars, imageVars, buildVars>>

\* main.js 187-189: the end of downloadFiles
downloadFilesReturn(r) ==
    /\ pc[r] = "downloadVideo"
    /\ index[r] = Len(payload[r].background.val)
    /\ \/ /\ Len(videoPaths[r]) = 0
          /\ Fail(r, "No valid background video provided")
       \/ /\ Len(videoPaths[r]) # 0
          /\ pc' = [pc EXCEPT ![r] = "concatVideo"]
          /\ UNCHANGED response
    /\ UNCHANGED <<envVars, diskVars, netVars, reqVars, request_id, downloadVars,
                   concatVars, imageVars, buildVars>>

(***************************************************************************)
(* concatenateMedia (main.js 195-221).  The outcomes of one call: what it  *)
(* throws or returns, the files it writes and the ffmpeg commands it runs. *)
(***************************************************************************)
Outcome(error, returned, wrote, ran) ==
    [threw |-> error # "", error |-> error, returned |-> returned,
     wrote |-> wrote, ran |-> ran]

\* main.js 199-220: the concat list, the ffmpeg run and its output file
runConcat(filePaths, type, tempDir, fs, ds) ==
    LET concatListPath == Path(tempDir, <<type, "_concat.txt">>)
        outputPath == Path(tempDir, <<"concatenated_", type, ".",
                                       IF type = "video" THEN "mp4" ELSE "mp3">>)
        command == [kind |-> "concat", type |-> type,
                    inputs |-> <<concatListPath>>, output |-> outputPath]
    IN IF tempDir \notin ds
       THEN {Outcome("ENOENT", NoPath, {}, <<>>)}
       ELSE {Outcome("ffmpeg concat failed", NoPath, {concatListPath}, <<command>>)}
            \cup
            IF \A k \in DOMAIN filePaths : InputExists(fs, filePaths[k])
            THEN {Outcome("", outputPath, {concatListPath, outputPath}, <<command>>)}
            ELSE {}

\* concatenateMedia without the return of line 197
concatenateMediaAlways(filePaths, type, tempDir, fs, ds) ==
    IF Len(filePaths) = 0
    THEN {Outcome("No " \o type \o " files to concatenate", NoPath, {}, <<>>)}
    ELSE runConcat(filePaths, type, tempDir, fs, ds)

\* concatenateMedia without the throw of line 196
concatenateMediaUnchecked(filePaths, type, tempDir, fs, ds) ==
    IF Len(filePaths) = 1
    THEN {Outcome("", filePaths[1], {}, <<>>)}
    ELSE runConcat(filePaths, type, tempDir, fs, ds)

concatenateMedia(filePaths, type, tempDir, fs, ds) ==
    IF Len(filePaths) = 0
    THEN {Outcome("No " \o type \o " files to concatenate", NoPath, {}, <<>>)}
    ELSE IF Len(filePaths) = 1
    THEN {Outcome("", filePaths[1], {}, <<>>)}
    ELSE runConcat(filePaths, type, tempDir, fs, ds)

\* the effect of a stage's outcome o on the disk, the ffmpeg log and the answer
Apply(r, o, nextpc) ==
    /\ files' = WriteFiles(files, o.wrote, r)
    /\ clobbered' = Clobber(clobbered, Overwritten(files, o.wrote, r))
    /\ ffmpegLog' = [ffmpegLog EXCEPT ![r] = @ \o o.ran]
    /\ IF o.threw
       THEN Fail(r, o.error)
       ELSE pc' = [pc EXCEPT ![r] = nextpc] /\ UNCHANGED response

\* main.js 489
concatenateVideo(r) ==
    /\ pc[r] = "concatVideo"
    /\ \E o \in concatenateMedia(videoPaths[r], "video", tempDirOf(request_id[r]),
                                 files, dirs) :
        /\ Apply(r, o, "concatAudio")
        /\ finalVideoInput' = [finalVideoInput EXCEPT ![r] = o.returned]
    /\ UNCHANGED <<envVars, dirs, bucket, fetched, reqVars, request_id, downloadVars,
                   audioInput, imageVars, buildVars>>

\* main.js 490
concatenateAudio(r) ==
    /\ pc[r] = "concatAudio"
    /\ \E o \in concatenateMedia(audioPaths[r], "audio", tempDirOf(request_id[r]),
                                 files, dirs) :
        /\ Apply(r, o, "arabic")
        /\ audioInput' = [audioInput EXCEPT ![r] = o.returned]
    /\ UNCHANGED <<envVars, dirs, bucket, fetched, reqVars, request_id, downloadVars,
                   finalVideoInput, imageVars, buildVars>>


(***************************************************************************)
(* The text rasterizers (main.js 226-357).                                 *)
(***************************************************************************)
RECURSIVE Measure(_)
\* ctx.measureText( line ).width
Measure(line) == IF line = <<>> THEN 0 ELSE Head(line) + Measure(Tail(line))

\* main.js 234 and 302: width * 0.9
maxWidth == (width * 9) \div 10

RECURSIVE WrapLoopDropping(_, _, _, _, _)
\* WrapLoop with the new line started empty, the word that did not fit left out
WrapLoopDropping(words, k, line, lines, maxW) ==
    IF k > Len(words)
    THEN Append(lines, line)
    ELSE LET testLine == Append(line, words[k]) IN
         IF Measure(testLine) > maxW /\ line # <<>>
         THEN WrapLoopDropping(words, k + 1, <<>>, Append(lines, line), maxW)
         ELSE WrapLoopDropping(words, k + 1, testLine, lines, maxW)

RECURSIVE WrapLoop(_, _, _, _, _)
\* main.js 239-249 and 307-317: the greedy wrap, from word k on, for a wrap
\* width of maxW
WrapLoop(words, k, line, lines, maxW) ==
    IF k > Len(words)
    THEN Append(lines, line)
    ELSE LET testLine == Append(line, words[k]) IN
         IF Measure(testLine) > maxW /\ line # <<>>
         THEN WrapLoop(words, k + 1, <<words[k]>>, Append(lines, line), maxW)
         ELSE WrapLoop(words, k + 1, testLine, lines, maxW)

\* main.js 235-250: the lines of a text at a wrap width of maxW
wrapLinesAt(words, maxW) == WrapLoop(words, 1, <<>>, <<>>, maxW)

wrapLines(words) == wrapLinesAt(words, maxWidth)

\* the totalHeight each rasterizer returns
renderArabicTextImage(text) == Len(wrapLines(text)) * arabicLineHeight
renderTranslationTextImage(text) == Len(wrapLines(text)) * translationLineHeight

imagePathOf(tempDir, kind, ayah) ==
    Path(tempDir, <<kind>> \o ReplaceColons(ayah.verse_key) \o <<".png">>)

\* main.js 278-289 and 346-357: the image paths and text heights of every verse
generateArabicImages(ayat, tempDir) ==
    [imagePaths |-> [k \in DOMAIN ayat |-> imagePathOf(tempDir, "arabic_", ayat[k])],
     textHeights |-> [k \in DOMAIN ayat |-> renderArabicTextImage(ayat[k].aya)]]
generateTranslationImages(ayat, tempDir) ==
    [imagePaths |-> [k \in DOMAIN ayat |-> imagePathOf(tempDir, "translation_", ayat[k])],
     textHeights |-> [k \in DOMAIN ayat |->
                        renderTranslationTextImage(ayat[k].translation)]]

Range(s) == {s[k] : k \in DOMAIN s}

\* the outcomes of writing the images g: all written, or the first write throws
RasterOutcomes(g, tempDir, ds) ==
    IF Len(g.imagePaths) = 0
    THEN {Outcome("", NoPath, {}, <<>>)}
    ELSE {Outcome("writeFileSync failed", NoPath, {}, <<>>)}
         \cup IF tempDir \in ds
              THEN {Outcome("", NoPath, Range(g.imagePaths), <<>>)}
              ELSE {}

\* main.js 491
rasterizeArabic(r) ==
    /\ pc[r] = "arabic"
    /\ LET g == generateArabicImages(payload[r].ayat.val, tempDirOf(request_id[r])) IN
       \E o \in RasterOutcomes(g, tempDirOf(request_id[r]), dirs) :
        /\ Apply(r, o, "translation")
        /\ arabicImagePaths' = [arabicImagePaths EXCEPT ![r] =
                                    IF o.threw THEN @ ELSE g.imagePaths]
        /\ arabicTextHeights' = [arabicTextHeights EXCEPT ![r] =
                                    IF o.threw THEN @ ELSE g.textHeights]
    /\ UNCHANGED <<envVars, dirs, bucket, fetched, reqVars, request_id, downloadVars,
                   concatVars, translationImagePaths, translationTextHeights, buildVars>>

\* main.js 492
rasterizeTranslation(r) ==
    /\ pc[r] = "translation"
    /\ LET g == generateTranslationImages(payload[r].ayat.val,
                                          tempDirOf(request_id[r])) IN
       \E o \in RasterOutcomes(g, tempDirOf(request_id[r]), dirs) :
        /\ Apply(r, o, "build")
        /\ translationImagePaths' = [translationImagePaths EXCEPT ![r] =
                                        IF o.threw THEN @ ELSE g.imagePaths]
        /\ translationTextHeights' = [translationTextHeights EXCEPT ![r] =
                                        IF o.threw THEN @ ELSE g.textHeights]
    /\ UNCHANGED <<envVars, dirs, bucket, fetched, reqVars, request_id, downloadVars,
                   concatVars, arabicImagePaths, arabicTextHeights, buildVars>>


(***************************************************************************)
(* buildVideoWithOverlays (main.js 362-470).                               *)
(***************************************************************************)
RECURSIVE TimelineLoop(_, _, _, _)
\* main.js 376-379, from duration k on
TimelineLoop(durations, k, currentTime, starts) ==
    IF k > Len(durations)
    THEN [startTimes |-> starts, totalDuration |-> currentTime]
    ELSE TimelineLoop(durations, k + 1, currentTime + durations[k],
                      Append(starts, currentTime))

RECURSIVE TimelineLoopLate(_, _, _, _)
TimelineLoopLate(durations, k, currentTime, starts) ==
    IF k > Len(durations)
    THEN [startTimes |-> starts, totalDuration |-> currentTime]
    ELSE TimelineLoopLate(durations, k + 1, currentTime + durations[k],
                          Append(starts, currentTime + durations[k]))

\* calculateTimeline with the push after the addition
calculateTimelineLate(durations) == TimelineLoopLate(durations, 1, 0, <<>>)

\* main.js 373-380
calculateTimeline(durations) == TimelineLoop(durations, 1, 0, <<>>)

\* what a filter reads: the stream of input n ("[n:v]") or a label ("[bg]")
Stream(n) == [stream |-> TRUE, label |-> "", n |-> n]
Label(l) == [stream |-> FALSE, label |-> l, n |-> 0]
NoRef == Label("")

\* the enable option of an overlay: none, or between(t,lo,hi)
Always == [timed |-> FALSE, lo |-> NaN, hi |-> NaN]
Between(lo, hi) == [timed |-> TRUE, lo |-> lo, hi |-> hi]

ScalePart(a, arg, out) ==
    [op |-> "scale", a |-> a, b |-> NoRef, arg |-> arg, x |-> "", centered |-> FALSE,
     y |-> NaN, enable |-> Always, out |-> out]
\* every overlay of main.js has x = (W-w)/2; `centered` says that y is (H-h)/2
OverlayPart(a, b, centered, y, enable, out) ==
    [op |-> "overlay", a |-> a, b |-> b, arg |-> "", x |-> "(W-w)/2",
     centered |-> centered, y |-> y, enable |-> enable, out |-> out]

\* FixedParts with the watermark shown only while the first verse plays
FixedPartsTimedWatermark ==
    <<ScalePart(Stream(0), "1080:1920,format=yuva420p", "bg"),
      OverlayPart(Label("bg"), Stream(3), TRUE, NaN, Always, "vig"),
      ScalePart(Stream(2), "iw*0.7:ih*0.7", "scaled_watermark"),
      OverlayPart(Label("vig"), Label("scaled_watermark"), FALSE, Num(watermarkY),
                  Between(Num(0), Num(1)), "with_watermark")>>

\* main.js 383-395
FixedParts ==
    <<ScalePart(Stream(0), "1080:1920,format=yuva420p", "bg"),
      OverlayPart(Label("bg"), Stream(3), TRUE, NaN, Always, "vig"),
      ScalePart(Stream(2), "iw*0.7:ih*0.7", "scaled_watermark"),
      OverlayPart(Label("vig"), Label("scaled_watermark"), FALSE, Num(watermarkY),
                  Always, "with_watermark")>>

RECURSIVE OverlayLoopBranching(_, _, _, _)
\* OverlayLoop with every translation laid over with_watermark
OverlayLoopBranching(a, i, prevLabel, parts) ==
    IF i >= Len(a.ayat)
    THEN [filterComplexParts |-> parts, finalVideoLabel |-> prevLabel]
    ELSE LET startTime == At(a.startTimes, i + 1)
             endTime == JsAdd(startTime, At(a.audioDurations, i + 1))
             translationHeight == At(a.translationTextHeights, i + 1)
             arabicHeight == At(a.arabicTextHeights, i + 1)
             translationY == JsSub(JsSub(Num(watermarkY),
                                         JsAdd(translationHeight, Num(100))), Num(50))
             translationLabel == "trans" \o ToString(i)
             arabicY == JsSub(translationY, JsAdd(arabicHeight, Num(24)))
             arabicLabel == "arabic" \o ToString(i)
         IN OverlayLoopBranching(a, i + 1, arabicLabel,
                parts \o
                <<OverlayPart(Label("with_watermark"),
                              Stream(i + Len(a.arabicImagePaths) + 4),
                              FALSE, translationY, Between(startTime, endTime),
                              translationLabel),
                  OverlayPart(Label(translationLabel), Stream(i + 4),
                              FALSE, arabicY, Between(startTime, endTime),
                              arabicLabel)>>)

RECURSIVE OverlayLoop(_, _, _, _)
\* main.js 400-425, from verse i (0-based) on; a holds the arguments
OverlayLoop(a, i, prevLabel, parts) ==
    IF i >= Len(a.ayat)
    THEN [filterComplexParts |-> parts, finalVideoLabel |-> prevLabel]
    ELSE LET startTime == At(a.startTimes, i + 1)
             endTime == JsAdd(startTime, At(a.audioDurations, i + 1))
             translationHeight == At(a.translationTextHeights, i + 1)
             arabicHeight == At(a.arabicTextHeights, i + 1)
             translationY == JsSub(JsSub(Num(watermarkY),
                                         JsAdd(translationHeight, Num(100))), Num(50))
             translationLabel == "trans" \o ToString(i)
             arabicY == JsSub(translationY, JsAdd(arabicHeight, Num(24)))
             arabicLabel == "arabic" \o ToString(i)
         IN OverlayLoop(a, i + 1, arabicLabel,
                parts \o
                <<OverlayPart(Label(prevLabel), Stream(i + Len(a.arabicImagePaths) + 4),
                              FALSE, translationY, Between(startTime, endTime),
                              translationLabel),
                  OverlayPart(Label(translationLabel), Stream(i + 4),
                              FALSE, arabicY, Between(startTime, endTime),
                              arabicLabel)>>)

StaticWatermark == Path("static", <<"images/", "quran-watermark.png">>)
StaticGradient == Path("static", <<"bg-vid-gradient.png">>)

\* BuildGraph with the translation images attached before the Arabic ones
BuildGraphSwapped(a) ==
    LET timeline == calculateTimeline(a.audioDurations)
        graph == OverlayLoop([a EXCEPT !.startTimes = timeline.startTimes],
                             0, "with_watermark", FixedParts)
    IN [startTimes |-> timeline.startTimes,
        totalDuration |-> timeline.totalDuration,
        filterComplexParts |-> graph.filterComplexParts,
        finalVideoLabel |-> graph.finalVideoLabel,
        outputPath |-> Path(a.tempDir, <<"final_output.mp4">>),
        inputs |-> <<a.videoPath, a.audioPath, StaticWatermark, StaticGradient>>
                    \o a.translationImagePaths \o a.arabicImagePaths]

\* main.js 373-444: the timeline, the filter graph and the ffmpeg command
BuildGraph(a) ==
    LET timeline == calculateTimeline(a.audioDurations)
        graph == OverlayLoop([a EXCEPT !.startTimes = timeline.startTimes],
                             0, "with_watermark", FixedParts)
    IN [startTimes |-> timeline.startTimes,
        totalDuration |-> timeline.totalDuration,
        filterComplexParts |-> graph.filterComplexParts,
        finalVideoLabel |-> graph.finalVideoLabel,
        outputPath |-> Path(a.tempDir, <<"final_output.mp4">>),
        inputs |-> <<a.videoPath, a.audioPath, StaticWatermark, StaticGradient>>
                    \o a.arabicImagePaths \o a.translationImagePaths]

\* ffmpeg can run the graph: every stream it reads is an attached input and every
\* number in it is a number
WellFormed(g) ==
    \A k \in DOMAIN g.filterComplexParts :
        LET part == g.filterComplexParts[k] IN
        /\ \A ref \in {part.a, part.b} : ref.stream => ref.n < Len(g.inputs)
        /\ part.enable.timed => IsNum(part.enable.lo) /\ IsNum(part.enable.hi)
        /\ (part.op = "overlay" /\ ~part.centered) => IsNum(part.y)

EncodeCommand(g) ==
    [kind |-> "encode", type |-> "video", inputs |-> g.inputs, output |-> g.outputPath]

\* main.js 432-469: the encode, its outcomes
EncodeOutcomes(g, tempDir, fs, ds) ==
    {Outcome("ffmpeg encode failed", NoPath, {}, <<EncodeCommand(g)>>)}
    \cup
    IF /\ tempDir \in ds
       /\ WellFormed(g)
       /\ \A k \in DOMAIN g.inputs : InputExists(fs, g.inputs[k])
    THEN {Outcome("", g.outputPath, {g.outputPath}, <<EncodeCommand(g)>>)}
    ELSE {}

BuildArgs(r) ==
    [videoPath |-> finalVideoInput[r],
     audioPath |-> audioInput[r],
     arabicImagePaths |-> arabicImagePaths[r],
     translationImagePaths |-> translationImagePaths[r],
     ayat |-> payload[r].ayat.val,
     audioDurations |-> audioDurations[r],
     translationTextHeights |-> translationTextHeights[r],
     arabicTextHeights |-> arabicTextHeights[r],
     tempDir |-> tempDirOf(request_id[r]),
     startTimes |-> <<>>]

\* main.js 494-504
buildVideoWithOverlays(r) ==
    /\ pc[r] = "build"
    /\ LET g == BuildGraph(BuildArgs(r)) IN
        /\ startTimes' = [startTimes EXCEPT ![r] = g.startTimes]
        /\ totalDuration' = [totalDuration EXCEPT ![r] = g.totalDuration]
        /\ filterComplexParts' = [filterComplexParts EXCEPT ![r] = g.filterComplexParts]
        /\ finalVideoLabel' = [finalVideoLabel EXCEPT ![r] = g.finalVideoLabel]
        /\ \E o \in EncodeOutcomes(g, tempDirOf(request_id[r]), files, dirs) :
            /\ Apply(r, o, "upload")
            /\ finalOutputPath' = [finalOutputPath EXCEPT ![r] = o.returned]
    /\ UNCHANGED <<envVars, dirs, bucket, fetched, reqVars, request_id, downloadVars,
                   concatVars, imageVars>>

(***************************************************************************)
(* Upload and cleanup (main.js 506-524).                                   *)
(***************************************************************************)
\* main.js 83: videos/<videoId>/<basename>
storageKey(videoId, videoPath) == <<"videos/", videoId, "/">> \o videoPath.name

\* main.js 508: uploadVideoToR2( finalOutputPath, request_id )
uploadVideoToR2(r) ==
    /\ pc[r] = "upload"
    /\ \/ \* readFileSync or the PutObject fails
          /\ Fail(r, "upload failed")
          /\ UNCHANGED bucket
       \/ /\ Exists(files, finalOutputPath[r])
          /\ bucket' = {b \in bucket : b.key # storageKey(request_id[r], finalOutputPath[r])}
                        \cup {[key |-> storageKey(request_id[r], finalOutputPath[r]),
                               by |-> r]}
          /\ pc' = [pc EXCEPT ![r] = "cleanup"]
          /\ UNCHANGED response
    /\ UNCHANGED <<envVars, diskVars, fetched, ffmpegLog, reqVars, request_id,
                   downloadVars, concatVars, imageVars, buildVars>>

Success(r) ==
    /\ pc' = [pc EXCEPT ![r] = "done"]
    /\ response' = [response EXCEPT ![r] =
            [status |-> IF entry[r] = "http" THEN 200 ELSE 0, error |-> "",
             output |-> finalOutputPath[r], videoId |-> request_id[r]]]

\* main.js 511-524
cleanup(r) ==
    /\ pc[r] = "cleanup"
    /\ LET tempDir == tempDirOf(request_id[r]) IN
       \/ /\ debugMode
          /\ Success(r)
          /\ UNCHANGED diskVars
       \/ /\ ~debugMode
          /\ tempDir \in dirs
          /\ dirs' = dirs \ {tempDir}
          /\ files' = RemoveDir(files, tempDir)
          /\ clobbered' = Clobber(clobbered, Deleted(files, tempDir, r))
          /\ Success(r)
       \/ \* rmSync of a directory that is gone throws
          /\ ~debugMode
          /\ tempDir \notin dirs
          /\ Fail(r, "ENOENT")
          /\ UNCHANGED diskVars
    /\ UNCHANGED <<envVars, netVars, reqVars, request_id, downloadVars, concatVars,
                   imageVars, buildVars>>

(***************************************************************************)
(* The pipeline: one request from either entry point.                      *)
(***************************************************************************)
Step(r) ==
    \/ handler(r)
    \/ runpodHandler(r)
    \/ downloadAudio(r)
    \/ downloadVideo(r)
    \/ downloadFilesReturn(r)
    \/ concatenateVideo(r)
    \/ concatenateAudio(r)
    \/ rasterizeArabic(r)
    \/ rasterizeTranslation(r)
    \/ buildVideoWithOverlays(r)
    \/ uploadVideoToR2(r)
    \/ cleanup(r)

Next == Tick \/ \E r \in Reqs : Step(r)

Spec == Init /\ [][Next]_vars


(***************************************************************************)
(* buildVideoWithOverlays on its own: every combination of a verse list, a *)
(* duration list and the four layer lists, aligned or not.                 *)
(***************************************************************************)
DurationLists == UNION {[1..n -> Durations] : n \in 0..MaxAudio}
Verses(n) == [k \in 1..n |-> VerseAt(k)]

InitBuild ==
    /\ now = 0
    /\ debugMode = FALSE
    /\ bucket = {}
    /\ fetched = [r \in Reqs |-> <<>>]
    /\ ffmpegLog = [r \in Reqs |-> <<>>]
    /\ clobbered = [r \in Reqs |-> FALSE]
    /\ req = [r \in Reqs |-> NoReq]
    /\ response = [r \in Reqs |-> NoResponse]
    /\ entry = [r \in Reqs |-> IF r = 1 THEN "http" ELSE "off"]
    /\ pc = [r \in Reqs |-> IF r = 1 THEN "build" ELSE "off"]
    /\ request_id = [r \in Reqs |-> IF r = 1 THEN generateShortId(0, 0) ELSE ""]
    /\ index = [r \in Reqs |-> 0]
    /\ startTimes = [r \in Reqs |-> <<>>]
    /\ totalDuration = [r \in Reqs |-> 0]
    /\ filterComplexParts = [r \in Reqs |-> <<>>]
    /\ finalVideoLabel = [r \in Reqs |-> ""]
    /\ finalOutputPath = [r \in Reqs |-> NoPath]
    /\ \E d \in DurationLists, nv \in 0..MaxVerses, na \in 0..MaxVerses,
          nah \in 0..MaxVerses, nt \in 0..MaxVerses, nth \in 0..MaxVerses :
        LET tempDir == tempDirOf(generateShortId(0, 0))
            video == videoPathOf(tempDir, 0)
            audio == audioPathOf(tempDir, Verses(1), 0)
            arabic == generateArabicImages(Verses(na), tempDir).imagePaths
            translation == generateTranslationImages(Verses(nt), tempDir).imagePaths
            only(x) == [r \in Reqs |-> IF r = 1 THEN x ELSE <<>>]
        IN /\ payload = [r \in Reqs |->
                    IF r = 1
                    THEN [recitation_files |-> Given([k \in 1..Len(d) |-> RecitationAt(k)]),
                          background |-> Given(<<Pix1>>),
                          ayat |-> Given(Verses(nv))]
                    ELSE NoPayload]
           /\ dirs = {tempDir}
           /\ files = WriteFiles({}, {video, audio} \cup Range(arabic)
                                         \cup Range(translation), 1)
           /\ audioPaths = only([k \in 1..Len(d) |-> audio])
           /\ audioDurations = only(d)
           /\ videoPaths = only(<<video>>)
           /\ finalVideoInput = [r \in Reqs |-> IF r = 1 THEN video ELSE NoPath]
           /\ audioInput = [r \in Reqs |-> IF r = 1 THEN audio ELSE NoPath]
           /\ arabicImagePaths = only(arabic)
           /\ arabicTextHeights =
                only(generateArabicImages(Verses(nah), tempDir).textHeights)
           /\ translationImagePaths = only(translation)
           /\ translationTextHeights =
                only(generateTranslationImages(Verses(nth), tempDir).textHeights)

NextBuild == \E r \in Reqs : buildVideoWithOverlays(r)

SpecBuild == InitBuild /\ [][NextBuild]_vars

(***************************************************************************)
(* Requests in flight together: every request arrives, each with a         *)
(* complete payload.                                                       *)
(***************************************************************************)
FullPayload ==
    [recitation_files |-> Given(<<RecitationAt(1)>>),
     background |-> Given(<<Pix1>>),
     ayat |-> Given(Verses(1))]

InitConc ==
    /\ InitLocals
    /\ req = [r \in Reqs |-> NoReq]
    /\ debugMode \in BOOLEAN
    /\ entry = [r \in Reqs |-> IF r = 1 THEN "http" ELSE "runpod"]
    /\ payload = [r \in Reqs |-> FullPayload]
    /\ pc = [r \in Reqs |-> "idle"]

SpecConc == InitConc /\ [][Next]_vars


(***************************************************************************)
(* Properties.                                                             *)
(***************************************************************************)
\* the encode backend was invoked for request r
Encoded(r) == \E k \in DOMAIN ffmpegLog[r] : ffmpegLog[r][k].kind = "encode"

\* the two overlays of verse i (1-based): its translation and its Arabic text
TranslationPart(r, i) == filterComplexParts[r][Len(FixedParts) + 2 * i - 1]
ArabicPart(r, i) == filterComplexParts[r][Len(FixedParts) + 2 * i]

RECURSIVE SumTo(_, _)
SumTo(d, n) == IF n = 0 THEN 0 ELSE SumTo(d, n - 1) + d[n]

Min(a, b) == IF a < b THEN a ELSE b

\* C1: for a non-empty list of audio durations the timeline has start[0] = 0,
\* start[i] = the sum of the durations before i, end[i] = start[i] + duration[i]
\* (the window written into the overlays of verse i), start[i+1] = end[i], and
\* totalDuration = end[last]; durations [3,4,5] give starts [0,3,7] and total 12.
C1_Timeline ==
    /\ calculateTimeline(<<3, 4, 5>>) = [startTimes |-> <<0, 3, 7>>, totalDuration |-> 12]
    /\ \A r \in Reqs :
        (Encoded(r) /\ Len(audioDurations[r]) >= 1) =>
            LET d == audioDurations[r]
                s == startTimes[r]
                n == Len(d)
            IN /\ Len(s) = n
               /\ s[1] = 0
               /\ \A i \in 1..n : s[i] = SumTo(d, i - 1)
               /\ \A i \in 1..(n - 1) : s[i + 1] = s[i] + d[i]
               /\ totalDuration[r] = s[n] + d[n]
               /\ \A i \in 1..Min(n, Len(payload[r].ayat.val)) :
                    /\ TranslationPart(r, i).enable = Between(Num(s[i]), Num(s[i] + d[i]))
                    /\ ArabicPart(r, i).enable = Between(Num(s[i]), Num(s[i] + d[i]))

\* two verses of durations 1 and 2 were timed and handed to the encode
C1_Witness ==
    /\ Encoded(1)
    /\ audioDurations[1] = <<1, 2>>
    /\ Len(payload[1].ayat.val) = 2
    /\ startTimes[1] = <<0, 1>>
    /\ totalDuration[1] = 3

\* ffmpeg's between(t,lo,hi): lo <= t and t <= hi (main.js 412 and 421)
EnabledAt(part, t) ==
    \/ ~part.enable.timed
    \/ /\ IsNum(part.enable.lo)
       /\ IsNum(part.enable.hi)
       /\ part.enable.lo[1] <= t
       /\ t <= part.enable.hi[1]

\* the verses (1-based) with an overlay drawn at playback time t
VersesEnabledAt(r, t) ==
    {i \in 1..Len(payload[r].ayat.val) :
        EnabledAt(TranslationPart(r, i), t) \/ EnabledAt(ArabicPart(r, i), t)}

\* C2: for a timeline of at least one verse the overlay windows are half-open:
\* at every t in [0, totalDuration) exactly one verse has its overlays enabled,
\* and at every other t none has.
C2_HalfOpenWindows ==
    \A r \in Reqs :
        (/\ Encoded(r)
         /\ Len(payload[r].ayat.val) >= 1
         /\ Len(payload[r].ayat.val) = Len(audioDurations[r])) =>
            \A t \in (0 - 1)..(totalDuration[r] + 1) :
                Cardinality(VersesEnabledAt(r, t))
                    = IF 0 <= t /\ t < totalDuration[r] THEN 1 ELSE 0

\* two verses of duration 1 each: at t = 1 the overlays of both are drawn
C2_Witness ==
    /\ Encoded(1)
    /\ audioDurations[1] = <<1, 1>>
    /\ Len(payload[1].ayat.val) = 2
    /\ VersesEnabledAt(1, 1) = {1, 2}


\* C3: a request whose ayat list is empty fails: no compositing graph is handed
\* to the encode backend and nothing is uploaded for it.
C3_EmptyAyatFails ==
    \A r \in Reqs :
        (Truthy(payload[r].ayat) /\ Len(payload[r].ayat.val) = 0) =>
            /\ ~Encoded(r)
            /\ pc[r] \notin {"upload", "cleanup", "done"}
            /\ \A b \in bucket : b.by # r

\* a request without verses was encoded, uploaded and answered
C3_Witness ==
    /\ pc[1] = "done"
    /\ payload[1].ayat = Given(<<>>)
    /\ Encoded(1)
    /\ \E b \in bucket : b.by = 1

\* the verse list and the four layer lists of request r differ in length
Misaligned(r) ==
    \E layer \in {arabicImagePaths[r], translationImagePaths[r],
                  arabicTextHeights[r], translationTextHeights[r]} :
        Len(layer) # Len(payload[r].ayat.val)

\* C4: given a verse list whose length differs from that of a layer list,
\* buildVideoWithOverlays fails before any graph node is made: no filter-graph
\* part is produced and the encode backend is not invoked.
C4_LayerAlignment ==
    \A r \in Reqs :
        (pc[r] \notin {"build", "off"} /\ Misaligned(r)) =>
            /\ filterComplexParts[r] = <<>>
            /\ ~Encoded(r)
            /\ pc[r] = "failed"

\* two verses and one Arabic image: the encode ran and succeeded, the Arabic
\* overlay of the second verse reading the first translation image
C4_Witness ==
    /\ pc[1] = "upload"
    /\ Len(payload[1].ayat.val) = 2
    /\ Len(arabicImagePaths[1]) = 1
    /\ Len(translationImagePaths[1]) = 2
    /\ ffmpegLog[1][1].inputs[ArabicPart(1, 2).b.n + 1] = translationImagePaths[1][1]

\* the stages after the call of concatenateMedia for the videos, and for the audio
AfterConcatVideo == {"concatAudio", "arabic", "translation", "build", "upload",
                     "cleanup", "done"}
AfterConcatAudio == AfterConcatVideo \ {"concatAudio"}

\* nothing of a concatenation of `type` by r: no list file, no output, no ffmpeg run
NoConcatTrace(r, type) ==
    /\ \A f \in files :
        f.dir = tempDirOf(request_id[r]) =>
            /\ f.name # <<type, "_concat.txt">>
            /\ ~(Len(f.name) >= 2 /\ f.name[1] = "concatenated_" /\ f.name[2] = type)
    /\ \A k \in DOMAIN ffmpegLog[r] :
        ~(ffmpegLog[r][k].kind = "concat" /\ ffmpegLog[r][k].type = type)

\* C5: concatenateMedia with exactly one input returns that path and does nothing
\* else: no concat list, no output file, no run of the media backend.
C5_SingletonIdentity ==
    \A r \in Reqs :
        /\ (pc[r] \in AfterConcatVideo /\ Len(videoPaths[r]) = 1) =>
                /\ finalVideoInput[r] = videoPaths[r][1]
                /\ NoConcatTrace(r, "video")
        /\ (pc[r] \in AfterConcatAudio /\ Len(audioPaths[r]) = 1) =>
                /\ audioInput[r] = audioPaths[r][1]
                /\ NoConcatTrace(r, "audio")

\* one video and one audio went through concatenateMedia and the files are there
C5_Witness ==
    /\ pc[1] = "arabic"
    /\ Len(videoPaths[1]) = 1
    /\ Len(audioPaths[1]) = 1
    /\ Exists(files, finalVideoInput[1])
    /\ Exists(files, audioInput[1])

\* C6: concatenateMedia with no input fails with an error naming the media kind,
\* writes no file and runs no backend; a request with an empty recitation list
\* reaches neither rasterization nor graph construction nor encode.
C6_NoMedia ==
    \A r \in Reqs :
        (~MissingFields(payload[r]) /\ Len(payload[r].recitation_files.val) = 0) =>
            /\ pc[r] \notin AfterConcatAudio
            /\ arabicImagePaths[r] = <<>>
            /\ translationImagePaths[r] = <<>>
            /\ filterComplexParts[r] = <<>>
            /\ ~Encoded(r)
            /\ NoConcatTrace(r, "audio")
            \* the videos were concatenated, so the failure is that of the audio call
            /\ (pc[r] = "failed" /\ finalVideoInput[r] # NoPath) =>
                    response[r].error = "No audio files to concatenate"

\* a request without recitations got its videos concatenated and then failed
C6_Witness ==
    /\ pc[1] = "failed"
    /\ payload[1].recitation_files = Given(<<>>)
    /\ finalVideoInput[1] # NoPath
    /\ response[1].error = "No audio files to concatenate"

RECURSIVE EligibleFrom(_, _)
\* the 0-based positions, from k on, of the links under https://cdn.pixabay.com/
EligibleFrom(links, k) ==
    IF k >= Len(links)
    THEN <<>>
    ELSE (IF SubSeq(links[k + 1], 1, 3) = <<"https://", "cdn.pixabay.com", "/">>
          THEN <<k>> ELSE <<>>) \o EligibleFrom(links, k + 1)

AudioUrls(r) ==
    {<<"https://verses.quran.com/">> \o payload[r].recitation_files.val[k].url :
        k \in DOMAIN payload[r].recitation_files.val}

\* C7: only links under https://cdn.pixabay.com/ are fetched; the others are
\* skipped without error; the video paths are those of the eligible links in input
\* order; with no link fetched the request fails before any concatenation,
\* rasterization or encode.
C7_BackgroundFilter ==
    \A r \in Reqs :
        LET links == payload[r].background.val
            eligible == EligibleFrom(links, 0)
        IN /\ \A k \in DOMAIN fetched[r] :
                \/ fetched[r][k] \in AudioUrls(r)
                \/ \E e \in DOMAIN eligible : fetched[r][k] = links[eligible[e] + 1]
           /\ pc[r] \in AfterConcatVideo \cup {"concatVideo"} =>
                videoPaths[r] = [e \in DOMAIN eligible |->
                                    videoPathOf(tempDirOf(request_id[r]), eligible[e])]
           /\ response[r].error = "Video download failed" =>
                Len(videoPaths[r]) < Len(eligible)
           /\ Len(videoPaths[r]) = 0 =>
                /\ pc[r] \notin AfterConcatVideo \cup {"concatVideo"}
                /\ ffmpegLog[r] = <<>>
                /\ arabicImagePaths[r] = <<>>
                /\ translationImagePaths[r] = <<>>

\* of three links the middle one was skipped and the other two were fetched, in order
C7_Witness ==
    /\ pc[1] = "concatVideo"
    /\ payload[1].background = Given(<<Pix1, OtherHost, Pix2>>)
    /\ Len(videoPaths[1]) = 2
    /\ OtherHost \notin Range(fetched[1])
    /\ Pix2 \in Range(fetched[1])

\* C8: a request that fails after its working directory was created has the
\* directory removed before it ends, whatever the debug flag.
C8_CleanupOnFailure ==
    \A r \in Reqs :
        (pc[r] = "failed" /\ request_id[r] # "") =>
            tempDirOf(request_id[r]) \notin dirs

\* in production mode a failed request left its directory and a file behind
C8_Witness ==
    /\ pc[1] = "failed"
    /\ ~debugMode
    /\ tempDirOf(request_id[1]) \in dirs
    /\ \E f \in files : f.dir = tempDirOf(request_id[1])

InFlight(r) == pc[r] \notin {"idle", "off", "rejected", "failed", "done"}

\* C9: two requests in flight together have distinct working directories, and no
\* request has a file of its own overwritten or deleted by another.
C9_Isolation ==
    /\ \A r1, r2 \in Reqs :
        (r1 # r2 /\ InFlight(r1) /\ InFlight(r2)) => request_id[r1] # request_id[r2]
    /\ \A r \in Reqs : ~clobbered[r]

\* two requests drew the same id and one lost a file to the other
C9_Witness ==
    /\ request_id[1] = request_id[2]
    /\ request_id[1] # ""
    /\ \E r \in Reqs : clobbered[r]

\* one of the three top-level fields is absent from the payload
MissingAny(p) ==
    \E field \in {"recitation_files", "background", "ayat"} : ~p[field].present

\* C10: with one of recitation_files, background, ayat absent, either entry point
\* answers with the missing-field error and starts nothing: no request id, no
\* working directory, no fetch, no ffmpeg run, no upload.
C10_MissingField ==
    \A r \in Reqs :
        (MissingAny(payload[r]) /\ pc[r] \notin {"idle", "off"}) =>
            /\ pc[r] = "rejected"
            /\ response[r].error = MissingFieldsMessage
            /\ entry[r] = "http" => response[r].status = 400
            /\ request_id[r] = ""
            /\ dirs = {}
            /\ files = {}
            /\ fetched[r] = <<>>
            /\ ffmpegLog[r] = <<>>
            /\ bucket = {}

\* runpodHandler turned down a payload that lacks only ayat
C10_Witness ==
    /\ pc[1] = "rejected"
    /\ entry[1] = "runpod"
    /\ payload[1].ayat = Absent
    /\ payload[1].recitation_files # Absent
    /\ payload[1].background # Absent
    /\ response[1].error = MissingFieldsMessage

\* the files request r wrote that are still on the disk
WorkingSet(r) == {Path(f.dir, f.name) : f \in {g \in files : g.by = r}}

\* C11: after a successful request has returned, the file named by the returned
\* output path still exists, and it is the only file of the request left: the
\* downloaded audio and video, the concat lists and the text images are gone.
C11_OutputSurvives ==
    \A r \in Reqs :
        pc[r] = "done" =>
            /\ Exists(files, response[r].output)
            /\ WorkingSet(r) = {response[r].output}

\* in production mode a request succeeded, its video is in the bucket, and the
\* file its answer names went with the working directory
C11_Witness ==
    /\ pc[1] = "done"
    /\ ~debugMode
    /\ response[1].output = Path(tempDirOf(request_id[1]), <<"final_output.mp4">>)
    /\ \E b \in bucket : b.by = 1
    /\ ~Exists(files, response[1].output)
    /\ WorkingSet(1) = {}

\* with the debug flag set a request succeeded and every temporary file stayed
C11_DebugKeepsAll ==
    /\ pc[1] = "done"
    /\ debugMode
    /\ Exists(files, response[1].output)
    /\ Cardinality(WorkingSet(1)) > 1

\* the parts of the graph of request r that write the label l
Producers(r, l) ==
    {k \in DOMAIN filterComplexParts[r] : filterComplexParts[r][k].out = l}

\* C12: for every verse count the watermark overlay has no time window: it puts
\* the scaled watermark over the vignetted background at x centered and
\* y = 1920 - 300, is drawn at every playback time, and is the same node whatever
\* the verses are.
C12_WatermarkAlways ==
    \A r \in Reqs :
        Encoded(r) =>
            /\ Cardinality(Producers(r, "with_watermark")) = 1
            /\ \A k \in Producers(r, "with_watermark") :
                LET node == filterComplexParts[r][k] IN
                /\ k = 4
                /\ node.op = "overlay"
                /\ node.a = Label("vig")
                /\ node.b = Label("scaled_watermark")
                /\ node.x = "(W-w)/2"
                /\ node.y = Num(1620)
                /\ ~node.centered
                /\ ~node.enable.timed
                /\ \A t \in (0 - 1)..(totalDuration[r] + 1) : EnabledAt(node, t)

\* a graph of two verses was encoded, its watermark node untimed between the
\* vignette and the first verse's overlay
C12_Witness ==
    /\ Encoded(1)
    /\ Len(payload[1].ayat.val) = 2
    /\ Len(filterComplexParts[1]) = 8
    /\ ~filterComplexParts[1][4].enable.timed
    /\ filterComplexParts[1][4].out = "with_watermark"
    /\ filterComplexParts[1][5].a = Label("with_watermark")
    /\ totalDuration[1] = 2 * MaxDuration

(***************************************************************************)
(* The rasterizers on their own: one verse whose Arabic text and           *)
(* translation are any texts of up to MaxWords words.                      *)
(***************************************************************************)
\* what measureText reports for a word and its trailing space
WordWidths == {300, 500, 800}
Texts == UNION {[1..n -> WordWidths] : n \in 0..MaxWords}
\* the wrap widths the line counts are compared at; maxWidth is the code's
WrapWidths == {350, 600, maxWidth, 1000, 1700}

InitWrap ==
    /\ now = 0
    /\ debugMode = FALSE
    /\ bucket = {}
    /\ files = {}
    /\ dirs = {tempDirOf(generateShortId(0, 0))}
    /\ fetched = [r \in Reqs |-> <<>>]
    /\ ffmpegLog = [r \in Reqs |-> <<>>]
    /\ clobbered = [r \in Reqs |-> FALSE]
    /\ req = [r \in Reqs |-> NoReq]
    /\ response = [r \in Reqs |-> NoResponse]
    /\ entry = [r \in Reqs |-> IF r = 1 THEN "http" ELSE "off"]
    /\ pc = [r \in Reqs |-> IF r = 1 THEN "arabic" ELSE "off"]
    /\ request_id = [r \in Reqs |-> IF r = 1 THEN generateShortId(0, 0) ELSE ""]
    /\ audioPaths = [r \in Reqs |-> <<>>]
    /\ audioDurations = [r \in Reqs |-> <<>>]
    /\ videoPaths = [r \in Reqs |-> <<>>]
    /\ index = [r \in Reqs |-> 0]
    /\ finalVideoInput = [r \in Reqs |-> NoPath]
    /\ audioInput = [r \in Reqs |-> NoPath]
    /\ arabicImagePaths = [r \in Reqs |-> <<>>]
    /\ arabicTextHeights = [r \in Reqs |-> <<>>]
    /\ translationImagePaths = [r \in Reqs |-> <<>>]
    /\ translationTextHeights = [r \in Reqs |-> <<>>]
    /\ startTimes = [r \in Reqs |-> <<>>]
    /\ totalDuration = [r \in Reqs |-> 0]
    /\ filterComplexParts = [r \in Reqs |-> <<>>]
    /\ finalVideoLabel = [r \in Reqs |-> ""]
    /\ finalOutputPath = [r \in Reqs |-> NoPath]
    /\ \E aya \in Texts, translation \in Texts :
        payload = [r \in Reqs |->
            IF r = 1
            THEN [recitation_files |-> Given(<<RecitationAt(1)>>),
                  background |-> Given(<<Pix1>>),
                  ayat |-> Given(<<[verse_key |-> <<ToString(1), ":", ToString(1)>>,
                                    aya |-> aya,
                                    translation |-> translation]>>)]
            ELSE NoPayload]

NextWrap == \E r \in Reqs : rasterizeArabic(r) \/ rasterizeTranslation(r)

SpecWrap == InitWrap /\ [][NextWrap]_vars

RECURSIVE JoinLines(_)
\* the words of the lines, one line after the other
JoinLines(lines) ==
    IF lines = <<>> THEN <<>> ELSE Head(lines) \o JoinLines(Tail(lines))

\* the wrap of `text` keeps every word whole, once, in order, and its line count
\* does not fall as the wrap width falls
WrapsWell(text) ==
    /\ \A maxW \in WrapWidths :
        LET lines == wrapLinesAt(text, maxW) IN
        /\ JoinLines(lines) = text
        /\ Len(lines) >= 1
        /\ \A k \in DOMAIN lines : lines[k] = <<>> => text = <<>>
    /\ \A narrow, wide \in WrapWidths :
        (narrow <= wide /\ \A k \in DOMAIN text : text[k] < narrow) =>
            Len(wrapLinesAt(text, wide)) <= Len(wrapLinesAt(text, narrow))

\* C13: the greedy wrap of both rasterizers puts every word whole on exactly one
\* line, in input order, and for a text whose words are each narrower than the
\* wrap width the number of lines never decreases when the width decreases; the
\* height a rasterizer reports is that number of lines times its line height.
C13_WordWrap ==
    \A r \in Reqs :
        \A k \in DOMAIN payload[r].ayat.val :
            LET ayah == payload[r].ayat.val[k] IN
            /\ k \in DOMAIN arabicTextHeights[r] =>
                /\ WrapsWell(ayah.aya)
                /\ arabicTextHeights[r][k]
                     = Len(wrapLinesAt(ayah.aya, 855)) * 100
            /\ k \in DOMAIN translationTextHeights[r] =>
                /\ WrapsWell(ayah.translation)
                /\ translationTextHeights[r][k]
                     = Len(wrapLinesAt(ayah.translation, 855)) * 45

\* both rasterizers ran on three-word texts: 300 500 300 wraps to two lines at
\* 855 and to three at 600; 800 800 800 wraps to three lines
C13_Witness ==
    /\ pc[1] = "build"
    /\ payload[1].ayat.val[1].aya = <<300, 500, 300>>
    /\ payload[1].ayat.val[1].translation = <<800, 800, 800>>
    /\ wrapLinesAt(<<300, 500, 300>>, 855) = <<<<300, 500>>, <<300>>>>
    /\ Len(wrapLinesAt(<<300, 500, 300>>, 600)) = 3
    /\ arabicTextHeights[1] = <<200>>
    /\ translationTextHeights[1] = <<135>>

(***************************************************************************)
(* The lookup of a video (main.js 99-129), reached by GET /videos/:id and  *)
(* by a runpod input whose route is 'video'.  A pathname is the sequence   *)
(* of its parts, every slash a part of its own.                            *)
(***************************************************************************)
defaultExpirySeconds == 7200

\* !videoId for a string that may be undefined
TruthyString(v) == v # undefined /\ v[1] # ""

NoUrl == [present |-> FALSE, key |-> <<>>, expires |-> 0]

\* what a template literal makes of videoId
Interpolate(v) == IF v = undefined THEN "undefined" ELSE v[1]

\* main.js 109 and 113: the storage key and the time the URL expires at
UrlFor(videoId, expiresIn, t) ==
    [present |-> TRUE,
     key |-> <<"videos/", Interpolate(videoId), "/", "final_output.mp4">>,
     expires |-> t + expiresIn * 1000]

\* getPresignedUrlForVideo without the test of videoId
getPresignedUrlForVideoUnchecked(videoId, expirySeconds, t) ==
    LET expiresIn == IF expirySeconds = undefined
                     THEN defaultExpirySeconds ELSE expirySeconds[1]
    IN [status |-> 200, error |-> "", videoId |-> videoId,
        presignedUrl |-> UrlFor(videoId, expiresIn, t), expiresIn |-> <<expiresIn>>]

\* main.js 99-129, called at time t
getPresignedUrlForVideo(videoId, expirySeconds, t) ==
    LET expiresIn == IF expirySeconds = undefined
                     THEN defaultExpirySeconds ELSE expirySeconds[1]
    IN IF ~TruthyString(videoId)
       THEN [status |-> 400, error |-> "Video ID is required", videoId |-> undefined,
             presignedUrl |-> NoUrl, expiresIn |-> undefined]
       ELSE [status |-> 200, error |-> "", videoId |-> videoId,
             presignedUrl |-> UrlFor(videoId, expiresIn, t), expiresIn |-> <<expiresIn>>]

RECURSIVE SplitLoop(_, _, _, _)
SplitLoop(s, k, segment, segments) ==
    IF k > Len(s)
    THEN Append(segments, segment)
    ELSE IF s[k] = "/"
    THEN SplitLoop(s, k + 1, "", Append(segments, segment))
    ELSE SplitLoop(s, k + 1, segment \o s[k], segments)

\* pathname.split( '/' )
split(pathname) == SplitLoop(pathname, 1, "", <<>>)

\* main.js 573-581 and 624-626: a GET whose pathname is not the root
handlerGet(r) ==
    /\ pc[r] = "lookup"
    /\ entry[r] = "http"
    /\ LET pathname == req[r].url IN
       IF startsWith(pathname, <<"/", "videos", "/">>)
       THEN LET videoId == At(split(pathname), 3)
                result == getPresignedUrlForVideo(videoId, undefined, now)
            IN response' = [response EXCEPT ![r] = result]
       ELSE response' = [response EXCEPT ![r] =
                [status |-> 404, error |-> "Endpoint not found", videoId |-> undefined,
                 presignedUrl |-> NoUrl, expiresIn |-> undefined]]
    /\ pc' = [pc EXCEPT ![r] = "looked"]
    /\ UNCHANGED <<envVars, diskVars, netVars, reqVars, request_id, downloadVars,
                   concatVars, imageVars, buildVars>>

\* main.js 643-645: runpodHandler for an input whose route is 'video'
runpodVideoRoute(r) ==
    /\ pc[r] = "lookup"
    /\ entry[r] = "runpod"
    /\ response' = [response EXCEPT ![r] =
            getPresignedUrlForVideo(req[r].input.videoId, req[r].input.expirySeconds, now)]
    /\ pc' = [pc EXCEPT ![r] = "looked"]
    /\ UNCHANGED <<envVars, diskVars, netVars, reqVars, request_id, downloadVars,
                   concatVars, imageVars, buildVars>>

Pathnames ==
    {<<"/", "videos", "/", "abc">>,
     <<"/", "videos", "/", "0-1">>,
     <<"/", "videos", "/", "abc", "/", "final_output.mp4">>,
     <<"/", "videos", "/">>,
     <<"/", "videos", "/", "/", "abc">>,
     <<"/", "videos">>}
VideoIds == {undefined, <<"">>, <<"abc">>, <<"0-1">>}
ExpirySeconds == {undefined, <<60>>}

HttpReqs == {[url |-> u, input |-> NoReq.input] : u \in Pathnames}
RunpodReqs ==
    {[url |-> <<>>, input |-> [videoId |-> v, expirySeconds |-> e]] :
        v \in VideoIds, e \in ExpirySeconds}

InitLookup ==
    /\ InitLocals
    /\ debugMode = FALSE
    /\ payload = [r \in Reqs |-> NoPayload]
    /\ pc = [r \in Reqs |-> "lookup"]
    /\ entry \in [Reqs -> {"http", "runpod"}]
    /\ req \in [Reqs -> HttpReqs \cup RunpodReqs]
    /\ \A r \in Reqs : req[r] \in (IF entry[r] = "http" THEN HttpReqs ELSE RunpodReqs)

NextLookup == Tick \/ \E r \in Reqs : handlerGet(r) \/ runpodVideoRoute(r)

SpecLookup == InitLookup /\ [][NextLookup]_vars

\* the video id a lookup asks for: the part after /videos/ of a GET, the videoId of
\* a runpod input; undefined when there is none
AskedId(r) ==
    IF entry[r] = "runpod"
    THEN req[r].input.videoId
    ELSE IF Len(req[r].url) >= 4 /\ req[r].url[4] # "/"
    THEN <<req[r].url[4]>>
    ELSE undefined

\* C14: a lookup whose video id is absent or empty answers with a 400-class
\* error and no URL; a lookup with an id answers 200 with a URL for the key
\* videos/<id>/final_output.mp4, the same key whenever the id is the same.
C14_PresignedLookup ==
    /\ \A r \in Reqs :
        pc[r] = "looked" =>
            IF AskedId(r) = undefined \/ AskedId(r) = <<"">>
            THEN /\ response[r].status \in 400..499
                 /\ response[r].error # ""
                 /\ ~response[r].presignedUrl.present
            ELSE /\ response[r].status = 200
                 /\ response[r].error = ""
                 /\ response[r].presignedUrl.present
                 /\ response[r].presignedUrl.key
                        = <<"videos/", AskedId(r)[1], "/", "final_output.mp4">>
    /\ \A r1, r2 \in Reqs :
        (/\ pc[r1] = "looked"
         /\ pc[r2] = "looked"
         /\ AskedId(r1) = AskedId(r2)) =>
            response[r1].presignedUrl.key = response[r2].presignedUrl.key

\* GET /videos/abc and a runpod lookup of abc, made at different times and with
\* different expiries, got URLs for the same key
C14_Witness ==
    /\ pc[1] = "looked"
    /\ pc[2] = "looked"
    /\ entry[1] = "http"
    /\ entry[2] = "runpod"
    /\ req[1].url = <<"/", "videos", "/", "abc">>
    /\ req[2].input = [videoId |-> <<"abc">>, expirySeconds |-> <<60>>]
    /\ response[1].status = 200
    /\ response[2].status = 200
    /\ response[1].presignedUrl.key = <<"videos/", "abc", "/", "final_output.mp4">>
    /\ response[2].presignedUrl.key = response[1].presignedUrl.key
    /\ response[1].presignedUrl.expires # response[2].presignedUrl.expires

\* a runpod lookup without a video id was turned down
C14_Refused ==
    /\ pc[1] = "looked"
    /\ entry[1] = "runpod"
    /\ req[1].input.videoId = undefined
    /\ response[1].status = 400
    /\ response[1].error = "Video ID is required"

\* the stage that may follow each stage of a request
StageOrder ==
    {<<"idle", "rejected">>, <<"idle", "downloadAudio">>, <<"idle", "downloadVideo">>,
     <<"downloadAudio", "downloadAudio">>, <<"downloadAudio", "downloadVideo">>,
     <<"downloadVideo", "downloadVideo">>, <<"downloadVideo", "concatVideo">>,
     <<"concatVideo", "concatAudio">>, <<"concatAudio", "arabic">>,
     <<"arabic", "translation">>, <<"translation", "build">>,
     <<"build", "upload">>, <<"upload", "cleanup">>, <<"cleanup", "done">>}
        \cup {<<stage, "failed">> :
                stage \in {"downloadAudio", "downloadVideo", "concatVideo", "concatAudio",
                           "arabic", "translation", "build", "upload", "cleanup"}}

\* the ffmpeg runs of request r, by kind and media type, in the order they were made
Runs(r) == [k \in DOMAIN ffmpegLog[r] |-> <<ffmpegLog[r][k].kind, ffmpegLog[r][k].type>>]

EncodeRuns(r) == {k \in DOMAIN ffmpegLog[r] : ffmpegLog[r][k].kind = "encode"}

\* everything buildVideoWithOverlays needs is there for request r: every audio was
\* probed, both concatenations returned an existing file, and every verse has
\* its two text images on the disk
ReadyToBuild(r) ==
    /\ Len(audioDurations[r]) = Len(payload[r].recitation_files.val)
    /\ Len(audioPaths[r]) = Len(payload[r].recitation_files.val)
    /\ Exists(files, finalVideoInput[r])
    /\ Exists(files, audioInput[r])
    /\ Len(arabicImagePaths[r]) = Len(payload[r].ayat.val)
    /\ Len(translationImagePaths[r]) = Len(payload[r].ayat.val)
    /\ \A k \in DOMAIN arabicImagePaths[r] : Exists(files, arabicImagePaths[r][k])
    /\ \A k \in DOMAIN translationImagePaths[r] :
            Exists(files, translationImagePaths[r][k])
    /\ Len(arabicTextHeights[r]) = Len(payload[r].ayat.val)
    /\ Len(translationTextHeights[r]) = Len(payload[r].ayat.val)

\* the stages of request r follow one another in the order of processVideoRequest
StagesInOrder(r) ==
    /\ pc'[r] # pc[r] => <<pc[r], pc'[r]>> \in StageOrder
    \* the timeline and the graph are made once, when everything is ready
    /\ (startTimes'[r] # startTimes[r] \/ filterComplexParts'[r] # filterComplexParts[r]) =>
            /\ ReadyToBuild(r)
            /\ filterComplexParts[r] = <<>>
            /\ EncodeRuns(r) = {}
    \* the encode runs with the graph, and only then
    /\ EncodeRuns(r)' # EncodeRuns(r) =>
            /\ ReadyToBuild(r)
            /\ filterComplexParts[r] = <<>>
            /\ filterComplexParts'[r] # <<>>
    \* the upload starts from the file a successful encode wrote
    /\ (pc[r] = "upload" /\ bucket' # bucket) =>
            /\ Cardinality(EncodeRuns(r)) = 1
            /\ Exists(files, finalOutputPath[r])
            /\ finalOutputPath[r] = ffmpegLog[r][Len(ffmpegLog[r])].output

\* C15: within one request the stages run in the order download and probe,
\* concatenate video, concatenate audio, rasterize Arabic, rasterize translation,
\* timeline, graph, encode, upload, cleanup: the timeline is computed after every
\* audio was probed, the graph after both concatenations and all text images, the
\* encode backend runs once, and the upload starts after the encode succeeded.
C15_StageOrder ==
    /\ [][\A r \in Reqs : StagesInOrder(r)]_vars
    /\ [](\A r \in Reqs :
            /\ Cardinality(EncodeRuns(r)) <= 1
            /\ pc[r] \in {"upload", "cleanup", "done"} =>
                    /\ Cardinality(EncodeRuns(r)) = 1
                    /\ filterComplexParts[r] # <<>>
                    /\ Len(startTimes[r]) = Len(payload[r].recitation_files.val)
            /\ \A k \in DOMAIN Runs(r) :
                    /\ Runs(r)[k] = <<"concat", "video">> => k = 1
                    /\ Runs(r)[k] = <<"encode", "video">> => k = Len(Runs(r))
            /\ (\E b \in bucket : b.by = r) => pc[r] \in {"cleanup", "done", "failed"})

\* a request of two recitations, two eligible videos and two verses went through
\* every stage: ffmpeg ran for the videos, then for the audio, then for the encode
C15_Witness ==
    /\ pc[1] = "done"
    /\ Len(audioDurations[1]) = 2
    /\ Len(videoPaths[1]) = 2
    /\ Len(payload[1].ayat.val) = 2
    /\ Runs(1) = <<<<"concat", "video">>, <<"concat", "audio">>, <<"encode", "video">>>>
    /\ Len(startTimes[1]) = 2
    /\ Len(filterComplexParts[1]) = 8
    /\ \E b \in bucket : b.by = 1

\* the place of each stage in processVideoRequest
StageRank ==
    [downloadAudio |-> 1, downloadVideo |-> 2, concatVideo |-> 3, concatAudio |-> 4,
     arabic |-> 5, translation |-> 6, build |-> 7, upload |-> 8, cleanup |-> 9]

\* request r holds nothing that a stage after the one of rank k makes
NothingAfter(r, k) ==
    /\ k < 2 => /\ videoPaths[r] = <<>>
                /\ \A j \in DOMAIN fetched[r] : fetched[r][j] \in AudioUrls(r)
    /\ k < 3 => /\ finalVideoInput[r] = NoPath
                /\ ffmpegLog[r] = <<>>
    /\ k < 4 => /\ audioInput[r] = NoPath
                /\ \A j \in DOMAIN Runs(r) : Runs(r)[j] = <<"concat", "video">>
    /\ k < 5 => arabicImagePaths[r] = <<>>
    /\ k < 6 => translationImagePaths[r] = <<>>
    /\ k < 7 => /\ filterComplexParts[r] = <<>>
                /\ startTimes[r] = <<>>
                /\ EncodeRuns(r) = {}
    /\ k < 8 => \A b \in bucket : b.by # r

\* everything the model keeps of request r
StateOf(r) ==
    <<pc[r], response[r], request_id[r], fetched[r], ffmpegLog[r], audioPaths[r],
      audioDurations[r], videoPaths[r], index[r], finalVideoInput[r], audioInput[r],
      arabicImagePaths[r], arabicTextHeights[r], translationImagePaths[r],
      translationTextHeights[r], startTimes[r], totalDuration[r],
      filterComplexParts[r], finalVideoLabel[r], finalOutputPath[r],
      {f \in files : f.by = r}, {b \in bucket : b.by = r}>>

\* a step of request r: a failure ends it, with that error, and nothing follows
ErrorsAreTerminal(r) ==
    /\ pc[r] \in {"failed", "rejected"} => StateOf(r)' = StateOf(r)
    /\ (pc[r] # "failed" /\ pc'[r] = "failed") =>
            /\ response'[r].error # ""
            /\ entry[r] = "http" => response'[r].status = 500
            /\ response'[r].output = NoPath
            /\ \E k \in 1..9 : k = StageRank[pc[r]] /\ NothingAfter(r, k)'
    /\ response'[r] # response[r] => pc'[r] \in {"failed", "rejected", "done"}

\* the sequence s holds no value twice
NoRepeats(s) == \A j, k \in DOMAIN s : s[j] = s[k] => j = k

\* C16: every error is terminal for its request: each fetch, probe,
\* concatenation, encode and upload is attempted at most once, after the first
\* failing step no later stage runs (a failed audio fetch means no further fetch,
\* no concatenation, no rasterization, no encode, no upload), and the request
\* ends with that error.
C16_ErrorsTerminal ==
    /\ [][\A r \in Reqs : ErrorsAreTerminal(r)]_vars
    /\ [](\A r \in Reqs :
            /\ NoRepeats(fetched[r])
            /\ NoRepeats(Runs(r))
            /\ Len(audioDurations[r]) <= Len(audioPaths[r])
            /\ Len(audioPaths[r]) <= Len(payload[r].recitation_files.val)
            /\ Cardinality({b \in bucket : b.by = r}) <= 1
            /\ response[r].error # "" <=> pc[r] \in {"failed", "rejected"}
            /\ (pc[r] = "failed" /\ response[r].error = "Audio download failed") =>
                    /\ Len(fetched[r]) = Len(audioDurations[r]) + 1
                    /\ NothingAfter(r, 1))

\* the fetch of the second of two recitations failed: two fetches were made, one
\* audio was probed, and nothing else was done
C16_Witness ==
    /\ pc[1] = "failed"
    /\ response[1].error = "Audio download failed"
    /\ Len(payload[1].recitation_files.val) = 2
    /\ Len(payload[1].background.val) = 3
    /\ Len(fetched[1]) = 2
    /\ Len(audioDurations[1]) = 1
    /\ videoPaths[1] = <<>>
    /\ ffmpegLog[1] = <<>>
    /\ bucket = {}

\* the reads of the label l in the graph of request r: <<part, side>>
Consumers(r, l) ==
    {<<k, side>> \in (DOMAIN filterComplexParts[r]) \X {"a", "b"} :
        filterComplexParts[r][k][side] = Label(l)}

\* the labels the graph of request r writes
LabelsOf(r) == {filterComplexParts[r][k].out : k \in DOMAIN filterComplexParts[r]}

\* C17: for every verse count the verse overlays form one chain rooted at the
\* watermark node: the first translation overlay is laid over with_watermark,
\* each Arabic overlay over its verse's translation output, each later translation
\* over the Arabic output of the verse before; every label is written once and
\* read once, except the terminal label, which is the last verse's Arabic output
\* (with_watermark without verses) and is read by no part.
C17_LinearChain ==
    \A r \in Reqs :
        Encoded(r) =>
            LET n == Len(payload[r].ayat.val)
                parts == filterComplexParts[r]
            IN /\ Len(parts) = 4 + 2 * n
               /\ parts[4].out = "with_watermark"
               /\ n = 0 => finalVideoLabel[r] = "with_watermark"
               /\ n > 0 => /\ finalVideoLabel[r] = ArabicPart(r, n).out
                           /\ TranslationPart(r, 1).a = Label("with_watermark")
               /\ \A i \in 1..n :
                    /\ TranslationPart(r, i).op = "overlay"
                    /\ ArabicPart(r, i).op = "overlay"
                    /\ ArabicPart(r, i).a = Label(TranslationPart(r, i).out)
                    /\ i < n => TranslationPart(r, i + 1).a = Label(ArabicPart(r, i).out)
               /\ \A l \in LabelsOf(r) :
                    /\ l # ""
                    /\ Cardinality(Producers(r, l)) = 1
                    /\ Cardinality(Consumers(r, l))
                            = IF l = finalVideoLabel[r] THEN 0 ELSE 1
                    \* a label is read after it is written
                    /\ \A c \in Consumers(r, l) : \A k \in Producers(r, l) : k < c[1]
               /\ \A k \in DOMAIN parts : \A side \in {"a", "b"} :
                    (~parts[k][side].stream /\ parts[k][side] # NoRef) =>
                        parts[k][side].label \in LabelsOf(r)
               /\ finalVideoLabel[r] \in LabelsOf(r)

\* the graph of two verses: with_watermark, trans0, arabic0, trans1, arabic1
C17_Witness ==
    /\ Encoded(1)
    /\ Len(payload[1].ayat.val) = 2
    /\ TranslationPart(1, 1).a = Label("with_watermark")
    /\ TranslationPart(1, 1).out = "trans0"
    /\ ArabicPart(1, 1).a = Label("trans0")
    /\ TranslationPart(1, 2).a = Label("arabic0")
    /\ ArabicPart(1, 2).a = Label("trans1")
    /\ finalVideoLabel[1] = "arabic1"
    /\ Consumers(1, "arabic1") = {}

\* the graph without verses ends at the watermark node
C17_NoVerses ==
    /\ Encoded(1)
    /\ Len(payload[1].ayat.val) = 0
    /\ Len(filterComplexParts[1]) = 4
    /\ finalVideoLabel[1] = "with_watermark"

\* the inputs attached to the encode command of request r, in order
EncodeInputs(r) == ffmpegLog[r][CHOOSE k \in EncodeRuns(r) : TRUE].inputs

\* the reads of the stream of input j (0-based) in the graph of request r
StreamReaders(r, j) ==
    {<<k, side>> \in (DOMAIN filterComplexParts[r]) \X {"a", "b"} :
        filterComplexParts[r][k][side] = Stream(j)}

\* the file behind a stream reference of the graph of request r
InputOf(r, ref) == EncodeInputs(r)[ref.n + 1]

\* C18: for n >= 1 verses with n Arabic and n translation images the input
\* indices of the graph match the order the inputs are attached in (0 background,
\* 1 audio, 2 watermark, 3 vignette, then the Arabic images, then the translation
\* images): the overlays of verse i read verse i's Arabic image and verse i's
\* translation image, no overlay reads an index without an input, and every image
\* input is read by exactly one overlay.
C18_InputIndices ==
    \A r \in Reqs :
        LET ayat == payload[r].ayat.val
            n == Len(ayat)
            tempDir == tempDirOf(request_id[r])
        IN (/\ Encoded(r)
            /\ n >= 1
            /\ Len(arabicImagePaths[r]) = n
            /\ Len(translationImagePaths[r]) = n) =>
                /\ Len(EncodeInputs(r)) = 4 + 2 * n
                /\ EncodeInputs(r)[1] = finalVideoInput[r]
                /\ EncodeInputs(r)[2] = audioInput[r]
                /\ EncodeInputs(r)[3].name = <<"images/", "quran-watermark.png">>
                /\ EncodeInputs(r)[4].name = <<"bg-vid-gradient.png">>
                /\ StreamReaders(r, 0) = {<<1, "a">>}
                /\ StreamReaders(r, 1) = {}
                /\ StreamReaders(r, 2) = {<<3, "a">>}
                /\ StreamReaders(r, 3) = {<<2, "b">>}
                /\ \A i \in 1..n :
                    /\ ArabicPart(r, i).b = Stream(4 + i - 1)
                    /\ TranslationPart(r, i).b = Stream(4 + n + i - 1)
                    /\ InputOf(r, ArabicPart(r, i).b)
                            = Path(tempDir, <<"arabic_", "1", "_", ToString(i), ".png">>)
                    /\ InputOf(r, TranslationPart(r, i).b)
                            = Path(tempDir, <<"translation_", "1", "_", ToString(i), ".png">>)
                    /\ InputOf(r, ArabicPart(r, i).b) = arabicImagePaths[r][i]
                    /\ InputOf(r, TranslationPart(r, i).b) = translationImagePaths[r][i]
                    /\ ArabicPart(r, i).enable = TranslationPart(r, i).enable
                /\ \A k \in DOMAIN filterComplexParts[r] : \A side \in {"a", "b"} :
                    filterComplexParts[r][k][side].stream =>
                        filterComplexParts[r][k][side].n < Len(EncodeInputs(r))
                /\ \A j \in 4..(4 + 2 * n - 1) : Cardinality(StreamReaders(r, j)) = 1

\* two verses, two Arabic and two translation images: the encode succeeded, the
\* second verse reading inputs 5 and 7
C18_Witness ==
    /\ pc[1] = "upload"
    /\ Len(payload[1].ayat.val) = 2
    /\ Len(arabicImagePaths[1]) = 2
    /\ Len(translationImagePaths[1]) = 2
    /\ Len(EncodeInputs(1)) = 8
    /\ ArabicPart(1, 2).b = Stream(5)
    /\ TranslationPart(1, 2).b = Stream(7)
    /\ InputOf(1, Stream(5)).name = <<"arabic_", "1", "_", "2", ".png">>
    /\ InputOf(1, Stream(7)).name = <<"translation_", "1", "_", "2", ".png">>


====
